---- MODULE Spec2Model ----
(***************************************************************************)
(* Reverse-mode autodiff of dfdx: the differentiation driver               *)
(* (tensor_ops/backward.rs), the division kernels                          *)
(* (tensor_ops/div/cpu_kernel.rs) and the Transformer module               *)
(* (nn/transformer/mod.rs), over the tape / gradient-store machinery the   *)
(* specification describes.                                                *)
(*                                                                         *)
(* f32 values are rationals <<n, d>> in lowest terms with d > 0, plus the  *)
(* IEEE specials +Inf = <<1,0>>, -Inf = <<-1,0>>, NaN = <<0,0>>.  Rounding *)
(* is not modelled; -0.0 is identified with 0.0.  Every tensor is          *)
(* represented by one element: a Rank0 tensor, or a one-element tensor of  *)
(* higher rank (rank0 = FALSE).                                            *)
(*                                                                         *)
(* A behaviour is one caller program: up to MaxCalls operations on two     *)
(* input tensors (operands are moved, trace() clones), then one backward   *)
(* or try_backward call followed op by op to its return, and for the       *)
(* Transformer programs the update that consumes the returned store.       *)
(***************************************************************************)
EXTENDS Integers, Sequences, FiniteSets, TLC

VARIABLES held, nextId, traced, calls, params, pc, mode, root, recorded, pending,
          grads, log, result, unused, lastOp, fwd

vars == <<held, nextId, traced, calls, params, pc, mode, root, recorded, pending,
          grads, log, result, unused, lastOp, fwd>>

(* ------------------------------ bounds --------------------------------- *)
MaxCalls == 3

(* ------------------------------ f32 ------------------------------------ *)
Abs(n) == IF n < 0 THEN -n ELSE n

Sgn(n) == IF n < 0 THEN -1 ELSE IF n > 0 THEN 1 ELSE 0

RECURSIVE GCD(_, _)
GCD(a, b) == IF b = 0 THEN a ELSE GCD(b, a % b)

Norm(n, d) ==
  IF d = 0 THEN <<Sgn(n), 0>>
  ELSE LET g == GCD(Abs(n), Abs(d))
       IN  IF d < 0 THEN <<(-n) \div g, (-d) \div g>> ELSE <<n \div g, d \div g>>

F(n) == <<n, 1>>

Zero == F(0)

One == F(1)

NaN == <<0, 0>>

IsFinite(a) == a[2] # 0

FNeg(a) == <<-a[1], a[2]>>

Recip(a) == IF a[1] < 0 THEN <<-a[2], -a[1]>> ELSE <<a[2], a[1]>>

FMul(a, b) == Norm(a[1] * b[1], a[2] * b[2])

FDiv(a, b) == FMul(a, Recip(b))

FAdd(a, b) ==
  IF a[2] = 0 /\ b[2] = 0 THEN (IF a = b THEN a ELSE NaN)
  ELSE Norm(a[1] * b[2] + b[1] * a[2], a[2] * b[2])

powi2(y) == FMul(y, y)

(* values of the caller's two input tensors, and scalar divisors *)
XVals == {F(6)}

YVals == {F(0), F(2)}

Scalars == {F(0), F(2)}

ParamVals == {F(2)}

(* ------------------------- division kernels ---------------------------- *)
ScalarDiv_f(s, x) == FDiv(x, s)

(* df returning the forward value *)
ScalarDiv_df_forward(s, x) == FDiv(x, s)

ScalarDiv_df(s, x) == FDiv(One, s)

BinaryDiv_f(x, y) == FDiv(x, y)

BinaryDiv_dfdx(x, y) == FDiv(One, y)

(* dfdy with the sign dropped *)
BinaryDiv_dfdy_unsigned(x, y) == FDiv(x, powi2(y))

BinaryDiv_dfdy(x, y) == FDiv(FNeg(x), powi2(y))

(* --------------------------- tapes and tensors ------------------------- *)
NoneTape == [owned |-> FALSE, tid |-> 0, ops |-> <<>>]

OwnedTape(tid) == [owned |-> TRUE, tid |-> tid, ops |-> <<>>]

Op(kind, lhs, rhs, out, x, y) ==
  [kind |-> kind, lhs |-> lhs, rhs |-> rhs, out |-> out, x |-> x, y |-> y]

Tok(k, a) == [k |-> k, a |-> a]

Tensor(id, val, rank0, tape, expr) ==
  [id |-> id, val |-> val, rank0 |-> rank0, tape |-> tape, expr |-> expr]

(* Tape.record: append only, and only when there is a tape *)
record(tape, op) ==
  IF tape.owned THEN [tape EXCEPT !.ops = Append(@, op)] ELSE tape

(* a merge that puts operand B's ops first *)
merge_swapped(ta, tb) ==
  IF ta.owned THEN [ta EXCEPT !.ops = tb.ops \o ta.ops] ELSE tb

(* Tape.merge: operand A's ops, then operand B's ops, owned by the result *)
merge(ta, tb) ==
  IF ta.owned THEN [ta EXCEPT !.ops = ta.ops \o tb.ops] ELSE tb

split_tape(t) == [t |-> [t EXCEPT !.tape = NoneTape], tape |-> t.tape]

put_tape(t, tape) == [t EXCEPT !.tape = tape]

(* forward value of an operation: the same kernel call with or without a tape *)
UnaryValue(kind, t, s) == IF kind = "sdiv" THEN ScalarDiv_f(s, t.val) ELSE t.val

(* a unary operation (scalar division, mean) on t, its result named id *)
UnaryResult(kind, t, s, id) ==
  Tensor(id, UnaryValue(kind, t, s), IF kind = "mean" THEN TRUE ELSE t.rank0,
         record(t.tape, Op(kind, t.id, 0, id, t.val, s)),
         Append(t.expr, Tok(kind, s)))

(* elementwise division a / b, its result named id *)
BinaryResult(a, b, id) ==
  Tensor(id, BinaryDiv_f(a.val, b.val), a.rank0,
         record(merge(a.tape, b.tape), Op("bdiv", a.id, b.id, id, a.val, b.val)),
         a.expr \o b.expr \o <<Tok("bdiv", Zero)>>)

Tracked(S) == {t \in S : t.tape.owned}

Untracked(S) == {t \in S : ~t.tape.owned}

(* ----------------------------- gradient store -------------------------- *)
NoGrads == <<>>

(* a lookup that allocates a zero buffer whether or not one is there *)
get_or_alloc_always(g, id) == (id :> Zero) @@ g

get_or_alloc(g, id) == IF id \in DOMAIN g THEN g ELSE g @@ (id :> Zero)

accumulate(g, id, inc) ==
  LET g1 == get_or_alloc(g, id) IN [g1 EXCEPT ![id] = FAdd(@, inc)]

(* the op try_backward records: fill the root's gradient buffer with ones *)
SeedOp(t) == Op("seed", 0, 0, t.id, t.val, Zero)

try_fill_with_ones(g, id) == [g EXCEPT ![id] = One]

(* what one backward op does to the store: .g the store after, .go the
   upstream gradient it read, .contribs the <<input, increment>> pairs *)
ApplyOp(op, g) ==
  IF op.kind = "seed" THEN
    [g |-> try_fill_with_ones(get_or_alloc(g, op.out), op.out), go |-> Zero,
     contribs |-> <<>>]
  ELSE IF op.kind = "bdiv" THEN
    LET g1 == get_or_alloc(get_or_alloc(get_or_alloc(g, op.lhs), op.rhs), op.out)
        go == g1[op.out]
        cl == FMul(BinaryDiv_dfdx(op.x, op.y), go)
        cr == FMul(BinaryDiv_dfdy(op.x, op.y), go)
    IN  [g |-> accumulate(accumulate(g1, op.lhs, cl), op.rhs, cr), go |-> go,
         contribs |-> <<<<op.lhs, cl>>, <<op.rhs, cr>>>>]
  ELSE
    LET g1 == get_or_alloc(get_or_alloc(g, op.lhs), op.out)
        go == g1[op.out]
        d  == IF op.kind = "sdiv" THEN ScalarDiv_df(op.y, op.x) ELSE One
        c  == FMul(d, go)
    IN  [g |-> accumulate(g1, op.lhs, c), go |-> go, contribs |-> <<<<op.lhs, c>>>>]

(* ------------------------------ Transformer ---------------------------- *)
EncParamIds == <<1>>

DecParamIds == <<2>>

ParamIds == EncParamIds \o DecParamIds

Range(q) == {q[i] : i \in 1..Len(q)}

ParamTensor(id, v) == Tensor(id, v, FALSE, NoneTape, <<Tok("param", v)>>)

(* ResetParams::try_build: the encoder's parameters, then the decoder's *)
try_build(v) ==
  [encoder |-> [i \in 1..Len(EncParamIds) |-> ParamTensor(EncParamIds[i], v[EncParamIds[i]])],
   decoder |-> [i \in 1..Len(DecParamIds) |-> ParamTensor(DecParamIds[i], v[DecParamIds[i]])]]

(* a layer stack: one elementwise division by each parameter in turn; the
   results are named id, id + 1, ... *)
RECURSIVE DivChain(_, _, _)
DivChain(x, ws, id) ==
  IF ws = <<>> THEN x ELSE DivChain(BinaryResult(x, Head(ws), id), Tail(ws), id + 1)

encoder_forward(src, id) == DivChain(src, params.encoder, id)

decoder_forward(tgt, mem, id) ==
  DivChain(BinaryResult(tgt, mem, id), params.decoder, id + 1)

IdsOfForward == Len(EncParamIds) + 1 + Len(DecParamIds)

(* forward giving tgt a new tape instead of the encoder's *)
forward_newtape(src, tgt, id) ==
  LET enc == encoder_forward(src, id)
      sp  == split_tape(enc)
      t2  == put_tape(tgt, IF sp.tape.owned THEN OwnedTape(sp.tape.tid) ELSE NoneTape)
      out == decoder_forward(t2, sp.t, id + Len(EncParamIds))
  IN  [enc |-> enc, mem |-> sp.t, tgt |-> t2, out |-> out,
       consumed |-> {src, tgt}]

(* forward handing the decoder the encoder output with its tape still on *)
forward_nosplit(src, tgt, id) ==
  LET enc == encoder_forward(src, id)
      t2  == put_tape(tgt, enc.tape)
      out == decoder_forward(t2, enc, id + Len(EncParamIds))
  IN  [enc |-> enc, mem |-> enc, tgt |-> t2, out |-> out,
       consumed |-> {src, tgt}]

(* forward putting a tape on tgt even when src carries none *)
forward_alwaystape(src, tgt, id) ==
  LET enc == encoder_forward(src, id)
      sp  == split_tape(enc)
      t2  == put_tape(tgt, IF sp.tape.owned THEN sp.tape ELSE OwnedTape(tgt.id))
      out == decoder_forward(t2, sp.t, id + Len(EncParamIds))
  IN  [enc |-> enc, mem |-> sp.t, tgt |-> t2, out |-> out,
       consumed |-> {src, tgt}]

(* Module<(Src, Tgt)>::forward; .enc, .mem and .tgt are its intermediates *)
forward(src, tgt, id) ==
  LET enc == encoder_forward(src, id)
      sp  == split_tape(enc)
      t2  == put_tape(tgt, sp.tape)
      out == decoder_forward(t2, sp.t, id + Len(EncParamIds))
  IN  [enc |-> enc, mem |-> sp.t, tgt |-> t2, out |-> out,
       consumed |-> {src, tgt}]

(* GradientUpdate::update with an updater that takes each parameter's gradient
   out of the store and reports the parameters that have none *)
RECURSIVE update_params(_, _)
update_params(ps, g) ==
  IF ps = <<>> THEN <<>>
  ELSE (IF Head(ps) \in DOMAIN g THEN <<>> ELSE <<Head(ps)>>) \o update_params(Tail(ps), g)

update(g) == update_params(EncParamIds, g) \o update_params(DecParamIds, g)

(* ------------------------------- state --------------------------------- *)
NoTensor == Tensor(0, Zero, FALSE, NoneTape, <<>>)

NoOp == [kind |-> "none", anyTape |-> FALSE, both |-> FALSE, a |-> <<>>, b |-> <<>>,
         x |-> Zero, y |-> Zero, out |-> NoTensor]

NoFwd == [valid |-> FALSE, src |-> NoTensor, enc |-> NoTensor, mem |-> NoTensor,
          tgt |-> NoTensor, out |-> NoTensor]

NoResult == [status |-> "none", grads |-> NoGrads]

NoUnused == [set |-> FALSE, ids |-> <<>>]

(* device.tensor / sample: an untracked tensor of rank > 0 *)
Leaf(id, v) == Tensor(id, v, FALSE, NoneTape, <<Tok("leaf", v)>>)

(* the caller's two input tensors are allocated, the Transformer is built *)
Init ==
  /\ \E vx \in XVals, vy \in YVals :
        held = {Leaf(Len(ParamIds) + 1, vx), Leaf(Len(ParamIds) + 2, vy)}
  /\ nextId = Len(ParamIds) + 3
  /\ traced = {}
  /\ calls = 0
  /\ \E v \in [Range(ParamIds) -> ParamVals] : params = try_build(v)
  /\ pc = "idle"
  /\ mode = "try"
  /\ root = NoTensor
  /\ recorded = <<>>
  /\ pending = <<>>
  /\ grads = NoGrads
  /\ log = <<>>
  /\ result = NoResult
  /\ unused = NoUnused
  /\ lastOp = NoOp
  /\ fwd = NoFwd

run == <<mode, root, recorded, pending, grads, log, result, unused>>

(* operands are moved into the operation *)
Consume(S) == held \ S

IsLeaf(t) == t.expr = <<Tok("leaf", t.val)>>

(* t.trace() on an input tensor: a clone of t, same identity, owning a fresh
   empty tape (named after the tensor; an input is traced at most once) *)
Trace(t) ==
  /\ pc = "idle" /\ IsLeaf(t)
  /\ ~t.tape.owned /\ t.id \notin traced
  /\ held' = held \cup {put_tape(t, OwnedTape(t.id))}
  /\ traced' = traced \cup {t.id}
  /\ UNCHANGED <<nextId, calls, params, pc, run, lastOp, fwd>>

Unary(kind, t, s) ==
  /\ pc = "idle" /\ calls < MaxCalls
  /\ LET r == UnaryResult(kind, t, s, nextId)
     IN  /\ held' = Consume({t}) \cup {r}
         /\ lastOp' = [kind |-> kind, anyTape |-> t.tape.owned, both |-> FALSE,
                       a |-> t.tape.ops, b |-> <<>>, x |-> t.val, y |-> s,
                       out |-> r]
  /\ nextId' = nextId + 1
  /\ calls' = calls + 1
  /\ UNCHANGED <<traced, params, pc, run, fwd>>

(* t / s *)
ScalarDiv(t, s) == Unary("sdiv", t, s)

(* t.mean(): reduces a tensor of rank > 0 to Rank0 *)
Mean(t) == ~t.rank0 /\ Unary("mean", t, Zero)

(* a / b: same shape; a tracked rhs needs a tracked lhs *)
BinaryDiv(a, b) ==
  /\ pc = "idle" /\ calls < MaxCalls
  /\ a.rank0 = b.rank0
  /\ b.tape.owned => a.tape.owned
  /\ a # b
  /\ LET r == BinaryResult(a, b, nextId)
     IN  /\ held' = Consume({a, b}) \cup {r}
         /\ lastOp' = [kind |-> "bdiv", anyTape |-> a.tape.owned \/ b.tape.owned,
                       both |-> a.tape.owned /\ b.tape.owned,
                       a |-> a.tape.ops, b |-> b.tape.ops, x |-> a.val,
                       y |-> b.val, out |-> r]
  /\ nextId' = nextId + 1
  /\ calls' = calls + 1
  /\ UNCHANGED <<traced, params, pc, run, fwd>>

(* Transformer::forward((src, tgt)): tgt carries no tape (Tgt: PutTape) *)
TransformerForward(src, tgt) ==
  /\ pc = "idle" /\ calls < MaxCalls
  /\ ~tgt.tape.owned /\ ~src.rank0 /\ ~tgt.rank0 /\ src # tgt
  /\ LET r == forward(src, tgt, nextId)
     IN  /\ held' = (held \ r.consumed) \cup {r.out}
         /\ fwd' = [valid |-> TRUE, src |-> src, enc |-> r.enc, mem |-> r.mem,
                    tgt |-> r.tgt, out |-> r.out]
  /\ nextId' = nextId + IdsOfForward
  /\ calls' = calls + 1
  /\ UNCHANGED <<traced, params, pc, run, lastOp>>

(* ------------------------- differentiation driver --------------------- *)
(* try_backward playing a new tape instead of the one it split off *)
try_backward_newtape(t) ==
  LET sp == split_tape(t)
  IN  [t |-> sp.t, tape |-> record(OwnedTape(t.tape.tid), SeedOp(sp.t))]

(* try_backward putting the seeding op in front of the recorded ops *)
try_backward_seedfront(t) ==
  LET sp == split_tape(t)
  IN  [t |-> sp.t, tape |-> [sp.tape EXCEPT !.ops = <<SeedOp(sp.t)>> \o @]]

(* try_backward up to the call of execute: the root without its tape, and the
   tape with the seeding op added last *)
try_backward(t) ==
  LET sp == split_tape(t)
  IN  [t |-> sp.t, tape |-> record(sp.tape, SeedOp(sp.t))]

(* an unwrap that lets an error through to the caller *)
unwrap_lenient(r) == "returned"

(* backward's unwrap of try_backward's result: where control goes *)
unwrap(r) == IF r.status = "ok" THEN "returned" ELSE "panicked"

Start(t, m) ==
  /\ pc = "idle" /\ t.tape.owned /\ t.rank0
  /\ LET r == try_backward(t)
     IN  /\ root' = t
         /\ recorded' = r.tape.ops
         /\ pending' = r.tape.ops
  /\ held' = held \ {t}
  /\ mode' = m
  /\ grads' = NoGrads
  /\ log' = <<>>
  /\ result' = NoResult
  /\ unused' = NoUnused
  /\ pc' = "execute"
  /\ UNCHANGED <<nextId, traced, calls, params, lastOp, fwd>>

TryBackward(t) == Start(t, "try")

Backward(t) == Start(t, "unwrap")

Returned == IF mode = "unwrap" THEN "unwrap" ELSE "returned"

(* Tape.execute, one op per step, last recorded first *)
ExecuteOk ==
  /\ pc = "execute" /\ pending # <<>>
  /\ LET op == pending[Len(pending)]
         r  == ApplyOp(op, grads)
     IN  /\ grads' = r.g
         /\ log' = Append(log, [op |-> op, go |-> r.go, contribs |-> r.contribs])
  /\ pending' = SubSeq(pending, 1, Len(pending) - 1)
  /\ UNCHANGED <<held, nextId, traced, calls, params, pc, mode, root, recorded, result,
                 unused, lastOp, fwd>>

(* the op's device call fails: execute returns the error at once *)
ExecuteFail ==
  /\ pc = "execute" /\ pending # <<>>
  /\ result' = [status |-> "err", grads |-> NoGrads]
  /\ pc' = Returned
  /\ UNCHANGED <<held, nextId, traced, calls, params, mode, root, recorded, pending, grads,
                 log, unused, lastOp, fwd>>

ExecuteDone ==
  /\ pc = "execute" /\ pending = <<>>
  /\ result' = [status |-> "ok", grads |-> grads]
  /\ pc' = Returned
  /\ UNCHANGED <<held, nextId, traced, calls, params, mode, root, recorded, pending, grads,
                 log, unused, lastOp, fwd>>

(* backward(): try_backward().unwrap() *)
Unwrap ==
  /\ pc = "unwrap"
  /\ pc' = unwrap(result)
  /\ result' = IF pc' = "panicked" THEN NoResult ELSE result
  /\ UNCHANGED <<held, nextId, traced, calls, params, mode, root, recorded, pending, grads,
                 log, unused, lastOp, fwd>>

(* t.update(SimpleUpdater(g), unused) on the store a backward returned *)
Update ==
  /\ pc = "returned" /\ result.status = "ok"
  /\ unused' = [set |-> TRUE, ids |-> update(result.grads)]
  /\ result' = NoResult
  /\ UNCHANGED <<held, nextId, traced, calls, params, pc, mode, root, recorded, pending,
                 grads, log, lastOp, fwd>>

Driver ==
  \/ \E t \in held : TryBackward(t)
  \/ \E t \in held : Backward(t)
  \/ ExecuteOk
  \/ ExecuteFail
  \/ ExecuteDone
  \/ Unwrap

(* programs over the division operators *)
Next ==
  \/ \E t \in held : Trace(t)
  \/ \E t \in held, s \in Scalars : ScalarDiv(t, s)
  \/ \E t \in held : Mean(t)
  \/ \E a \in held, b \in held : BinaryDiv(a, b)
  \/ Driver

Spec == Init /\ [][Next]_vars

(* programs over the Transformer module *)
NextT ==
  \/ \E t \in held : Trace(t)
  \/ \E src \in held, tgt \in held : TransformerForward(src, tgt)
  \/ \E t \in held, s \in Scalars : ScalarDiv(t, s)
  \/ \E t \in held : Mean(t)
  \/ Driver
  \/ Update

SpecT == Init /\ [][NextT]_vars

(* ------------------------------ properties ----------------------------- *)
Started == pc # "idle"

IsRecorded(e) == e.op.kind # "seed"

LogOps == [i \in 1..Len(log) |-> log[i].op]

Played == LET p == SelectSeq(log, IsRecorded) IN [i \in 1..Len(p) |-> p[i].op]

(* C1: playback invokes the ops the root's tape recorded as [op1, ..., opN] in
   the order [opN, ..., op1]: what has been played so far is the reverse of a
   suffix of the tape, and a playback that succeeded has played all N ops, each
   once. *)
C1_ReverseOrder ==
  Started =>
    LET N == Len(root.tape.ops)
    IN  /\ Len(Played) <= N
        /\ \A i \in 1..Len(Played) : Played[i] = root.tape.ops[N + 1 - i]
        /\ result.status = "ok" => Len(Played) = N

C1_Witness ==
  /\ result.status = "ok"
  /\ Len(root.tape.ops) >= 3
  /\ Len(Played) = Len(root.tape.ops)

(* C2: the first op played is the seeding op; it leaves the store holding
   exactly one entry, the root's, equal to 1; and every recorded op that reads
   the root's gradient reads 1. *)
C2_SeedFirst ==
  (Started /\ Len(log) >= 1) =>
    /\ log[1].op = SeedOp(root)
    /\ Len(log) = 1 => grads = (root.id :> One)
    /\ \A i \in 2..Len(log) : log[i].op.out = root.id => log[i].go = One

C2_Witness ==
  /\ Len(log) >= 2
  /\ log[2].op.out = root.id
  /\ log[2].go = One

(* all <<input, increment>> pairs of the ops played so far, in order *)
RECURSIVE Contribs(_)
Contribs(l) == IF l = <<>> THEN <<>> ELSE Head(l).contribs \o Contribs(Tail(l))

(* the increments for id added one after another onto acc *)
RECURSIVE SumFor(_, _, _)
SumFor(id, cs, acc) ==
  IF cs = <<>> THEN acc
  ELSE SumFor(id, Tail(cs), IF Head(cs)[1] = id THEN FAdd(acc, Head(cs)[2]) ELSE acc)

SelfDivs == {i \in 1..Len(log) : log[i].op.kind = "bdiv" /\ log[i].op.lhs = log[i].op.rhs}

(* C3: every entry of the store is the sum of all the increments the played
   ops pushed to its identity (on top of the seed for the root), none lost; and
   when the graph is mean(x / x), the entry for x is 1/x + (-x/x^2). *)
C3_Accumulates ==
  Started =>
    /\ LET cs == Contribs(log)
       IN  \A id \in DOMAIN grads :
             grads[id] = SumFor(id, cs, IF id = root.id THEN One ELSE Zero)
    /\ \A i \in SelfDivs :
         LET op == log[i].op
         IN  (Len(log) = 3 /\ log[2].op.kind = "mean" /\ log[2].op.lhs = op.out) =>
               grads[op.lhs] = FAdd(FDiv(One, op.x), FNeg(FDiv(op.x, FMul(op.x, op.x))))

C3_Witness ==
  /\ result.status = "ok"
  /\ Len(log) = 3
  /\ 3 \in SelfDivs
  /\ log[3].op.x = F(6)
  /\ result.grads[log[3].op.lhs] = Zero

(* C4: a failing op ends the playback where it is: the failed op and the ops
   recorded before it are never played, try_backward returns the error and no
   store, and backward() panics instead of returning. *)
C4_FailStops ==
  /\ result.status = "err" =>
       /\ result.grads = NoGrads
       /\ pending # <<>>
       /\ LogOps \o [i \in 1..Len(pending) |-> pending[Len(pending) + 1 - i]]
            = [i \in 1..Len(recorded) |-> recorded[Len(recorded) + 1 - i]]
       /\ pc \in {"unwrap", "returned"}
       /\ pc = "returned" => mode = "try"
  /\ pc = "panicked" => (mode = "unwrap" /\ result = NoResult /\ pending # <<>>)
  /\ (pc = "returned" /\ mode = "unwrap") => result.status = "ok"

C4_Witness ==
  /\ result.status = "err"
  /\ pc = "returned"
  /\ Len(log) >= 2
  /\ Len(pending) >= 2

(* C6: the tape of a / b over two tracked operands is A's ops in their order,
   then B's ops in their order, then the new op, and nothing else. *)
C6_MergeOrder ==
  (lastOp.kind = "bdiv" /\ lastOp.both) =>
    LET ops == lastOp.out.tape.ops
        n   == Len(lastOp.a) + Len(lastOp.b)
    IN  /\ Len(ops) = n + 1
        /\ SubSeq(ops, 1, n) = lastOp.a \o lastOp.b
        /\ ops[n + 1].kind = "bdiv"
        /\ ops[n + 1].out = lastOp.out.id

C6_Witness ==
  /\ lastOp.kind = "bdiv" /\ lastOp.both
  /\ Len(lastOp.a) >= 1 /\ Len(lastOp.b) >= 1
  /\ lastOp.a # lastOp.b

NonZero(a) == IsFinite(a) /\ a # Zero

(* C8: with a finite input and a finite non-zero divisor the kernels agree with
   exact division (checked by multiplying back): f(x) * s = x and df(x) * s = 1;
   f(x, y) * y = x, dfdx * y = 1 and dfdy * y * y = -x; at 6 and 2 the values
   are 3, 0.5 (the increment under an upstream gradient of 1) and -1.5. *)
C8_Division ==
  /\ (lastOp.kind = "sdiv" /\ IsFinite(lastOp.x) /\ NonZero(lastOp.y)) =>
       /\ FMul(lastOp.out.val, lastOp.y) = lastOp.x
       /\ (lastOp.x = F(6) /\ lastOp.y = F(2)) => lastOp.out.val = F(3)
  /\ (lastOp.kind = "bdiv" /\ IsFinite(lastOp.x) /\ NonZero(lastOp.y)) =>
       /\ FMul(lastOp.out.val, lastOp.y) = lastOp.x
       /\ (lastOp.x = F(6) /\ lastOp.y = F(2)) => lastOp.out.val = F(3)
  /\ \A i \in 1..Len(log) :
       LET op == log[i].op
       IN  (IsFinite(op.x) /\ NonZero(op.y)) =>
             /\ op.kind = "sdiv" =>
                  /\ FMul(ScalarDiv_df(op.y, op.x), op.y) = One
                  /\ ScalarDiv_df(op.y, op.x) = ScalarDiv_df(op.y, Zero)
                  /\ (op.x = F(6) /\ op.y = F(2) /\ log[i].go = One) =>
                       log[i].contribs = <<<<op.lhs, <<1, 2>>>>>>
             /\ op.kind = "bdiv" =>
                  /\ FMul(BinaryDiv_dfdx(op.x, op.y), op.y) = One
                  /\ FMul(FMul(BinaryDiv_dfdy(op.x, op.y), op.y), op.y) = FNeg(op.x)
                  /\ (op.x = F(6) /\ op.y = F(2)) =>
                       /\ BinaryDiv_dfdx(op.x, op.y) = <<1, 2>>
                       /\ BinaryDiv_dfdy(op.x, op.y) = <<-3, 2>>

C8_Witness ==
  /\ Len(log) >= 3
  /\ log[3].op.kind = "sdiv"
  /\ log[3].op.x = F(6) /\ log[3].op.y = F(2)
  /\ log[3].go = One
  /\ grads[log[3].op.lhs] = <<1, 2>>

(* C10: looking an identity up twice gives what looking it up once gives: an
   absent identity gets one zero entry and the other entries stay as they are,
   a present one is returned unchanged. *)
C10_LookupIdempotent ==
  \A id \in 1..nextId :
    LET g1 == get_or_alloc(grads, id)
        g2 == get_or_alloc(g1, id)
    IN  /\ g2 = g1
        /\ DOMAIN g1 = DOMAIN grads \cup {id}
        /\ \A j \in DOMAIN grads : g1[j] = grads[j]
        /\ id \notin DOMAIN grads => g1[id] = Zero

C10_Witness ==
  /\ pc = "execute"
  /\ \E id \in DOMAIN grads : grads[id] \notin {Zero, One}
  /\ \E id \in 1..nextId : id \notin DOMAIN grads

Inputs(op) ==
  IF op.kind = "bdiv" THEN {op.lhs, op.rhs}
  ELSE IF op.kind = "seed" THEN {} ELSE {op.lhs}

(* the root's tape holds the forward pass of the Transformer on a traced src *)
TransformerOnTape ==
  /\ Started /\ fwd.valid /\ fwd.src.tape.owned
  /\ \E i \in 1..Len(root.tape.ops) : root.tape.ops[i].out = fwd.out.id

(* C5: a backward that succeeded returns a store with an entry for every input
   of every op on the root's tape; when that tape holds a Transformer forward on
   a traced src, every encoder and decoder parameter has an entry, and update
   reports no unused tensor. *)
C5_AllParamsUsed ==
  /\ result.status = "ok" =>
       \A i \in 1..Len(root.tape.ops) : Inputs(root.tape.ops[i]) \subseteq DOMAIN result.grads
  /\ (result.status = "ok" /\ TransformerOnTape) =>
       Range(ParamIds) \subseteq DOMAIN result.grads
  /\ (unused.set /\ TransformerOnTape) => unused.ids = <<>>

C5_Witness ==
  /\ unused.set /\ TransformerOnTape
  /\ unused.ids = <<>>
  /\ Range(ParamIds) \cup {fwd.src.id, fwd.tgt.id} \subseteq DOMAIN grads

(* C7: an operation whose operands carry no tape gives a result without a tape
   (so nothing is recorded), a Transformer forward on an untraced src gives an
   untracked output, no store exists before a backward is started, and two
   tensors computed by the same operations from the same inputs have the same
   value whether or not they are tracked. *)
C7_UntrackedIsPure ==
  /\ (lastOp.kind # "none" /\ ~lastOp.anyTape) => lastOp.out.tape = NoneTape
  /\ (fwd.valid /\ ~fwd.src.tape.owned) =>
       /\ fwd.enc.tape = NoneTape /\ fwd.tgt.tape = NoneTape
       /\ fwd.out.tape = NoneTape
  /\ pc = "idle" => (grads = NoGrads /\ result = NoResult)
  /\ \A a \in held \cup {fwd.out}, b \in held \cup {fwd.out} :
       a.expr = b.expr => a.val = b.val

C7_Witness ==
  /\ fwd.valid /\ ~fwd.src.tape.owned
  /\ fwd.out \in held
  /\ fwd.out.tape = NoneTape

DecOps == 1 + Len(DecParamIds)

(* C9: no two tensors own the same tape, and none owns the tape a backward is
   playing; in a Transformer forward the memory tensor carries no tape, tgt
   gets exactly the encoder output's tape, and the output's tape is the
   encoder's ops followed by the decoder's. *)
C9_OneOwner ==
  /\ \A a \in Tracked(held), b \in Tracked(held) : a.tape.tid = b.tape.tid => a = b
  /\ Started => \A a \in Tracked(held) : a.tape.tid # root.tape.tid
  /\ fwd.valid =>
       /\ fwd.mem.tape = NoneTape
       /\ fwd.mem.id = fwd.enc.id
       /\ fwd.tgt.tape = fwd.enc.tape
       /\ fwd.out.tape.owned = fwd.enc.tape.owned
       /\ fwd.out.tape.tid = fwd.enc.tape.tid
       /\ fwd.enc.tape.owned =>
            /\ Len(fwd.out.tape.ops) = Len(fwd.enc.tape.ops) + DecOps
            /\ SubSeq(fwd.out.tape.ops, 1, Len(fwd.enc.tape.ops)) = fwd.enc.tape.ops
            /\ \A i \in 1..DecOps :
                 fwd.out.tape.ops[Len(fwd.enc.tape.ops) + i].out
                   = fwd.mem.id + i

C9_Witness ==
  /\ fwd.valid /\ fwd.enc.tape.owned
  /\ fwd.out \in held
  /\ Len(fwd.enc.tape.ops) >= 2
  /\ Cardinality(Tracked(held)) = 2

====
